---------------------------- MODULE Spec2Model ----------------------------
(***************************************************************************)
(* Model of the chained-mapping recipe                                     *)
(*   src/Data Structures and Algorithms/                                   *)
(*       Combining_Multiple_Mappings_into_a_Single_Mapping.py              *)
(*                                                                         *)
(* The script builds two dictionaries a and b, combines them with          *)
(* collections.ChainMap and then reads, writes, deletes, pushes child      *)
(* scopes (new_child) and pops them (parents), and mutates the underlying  *)
(* dictionaries directly.  It also merges b and a into one dictionary,     *)
(* merged, to compare it with the ChainMap.                                *)
(*                                                                         *)
(* A second recipe, Calculating_with_Dictionaries.py, reduces a dictionary *)
(* of prices with min() and max(), over zip(values, keys) and over the     *)
(* dictionary itself.  A name is the sequence of its code points, which is *)
(* what Python compares strings by; a price is in hundredths.              *)
(*                                                                         *)
(* A dictionary is a sequence of <<key, value>> pairs with distinct keys   *)
(* in insertion order (the order a Python dict iterates in).  Dictionaries *)
(* are objects: heap[i] is the contents of the dictionary with identity i, *)
(* and a ChainMap is the list `maps` of the identities it refers to.       *)
(***************************************************************************)
EXTENDS Integers, Sequences, FiniteSets

VARIABLES heap,   \* heap[i]: contents of dictionary object i
          maps,   \* the current view's list of dictionary identities
          args,   \* the references the view was constructed from
          hist,   \* the operations performed so far, with their outcomes
          merged, \* <<d>> once merged is bound to the dictionary d, else <<>>
          prices, \* the dictionary of the reductions recipe
          reduced \* the last reduction of prices and what it returned

vars == <<heap, maps, args, hist, merged, prices, reduced>>

\* the state of the reductions recipe, which the ChainMap recipe never touches
calc == <<prices, reduced>>

-----------------------------------------------------------------------------
(* Bounds and inputs *)

\* number of operations performed after construction
MaxOps == 3

\* keys the script uses: 'x', 'y', 'z' of a and b, and the new key 'w'
Keys == {"x", "y", "z", "w"}

\* the assignments the script makes through a view, as <<key, value>>:
\* c['z'] = 10, c['w'] = 40, values['x'] = 1, values['x'] = 2,
\* values['x'] = 3
Writes == {<<"z", 10>>, <<"w", 40>>, <<"x", 1>>, <<"x", 2>>, <<"x", 3>>}

\* values the script assigns through a view
WriteVals == {w[2] : w \in Writes}

\* the key the script assigns on a dictionary itself
ExtKeys == {"x"}

\* values the script assigns on a dictionary itself: a['x'] = 13,
\* a['x'] = 42
ExtVals == {13, 42}

\* identities of the script's dictionaries a and b
A == 1
B == 2

\* a = {'x': 1, 'z': 3}
DictA == << <<"x", 1>>, <<"z", 3>> >>

\* b = {'y': 2, 'z': 4}
DictB == << <<"y", 2>>, <<"z", 4>> >>

-----------------------------------------------------------------------------
(* Python dict: insertion-ordered, keys distinct *)

RECURSIVE SeqFilterKey(_, _)
\* the pairs of d whose key is not k, order kept
SeqFilterKey(d, k) ==
    IF d = <<>> THEN <<>>
    ELSE IF Head(d)[1] = k THEN SeqFilterKey(Tail(d), k)
         ELSE <<Head(d)>> \o SeqFilterKey(Tail(d), k)

\* k in d
DictHas(d, k) == \E i \in DOMAIN d : d[i][1] = k

\* d[k], for k in d
DictGet(d, k) == d[CHOOSE i \in DOMAIN d : d[i][1] = k][2]

\* d[k] = v: an existing key keeps its position, a new key goes last
DictSet(d, k, v) ==
    IF DictHas(d, k)
    THEN [i \in DOMAIN d |-> IF d[i][1] = k THEN <<k, v>> ELSE d[i]]
    ELSE Append(d, <<k, v>>)

\* del d[k], for k in d
DictDel(d, k) == SeqFilterKey(d, k)

\* list(d): the keys in insertion order
DictKeys(d) == [i \in DOMAIN d |-> d[i][1]]

\* set(d)
DictKeySet(d) == {d[i][1] : i \in DOMAIN d}

RECURSIVE DictUpdate(_, _)
\* d.update(src): d[k] = v for each k, v of src in src's order
DictUpdate(d, src) ==
    IF src = <<>> THEN d
    ELSE DictUpdate(DictSet(d, Head(src)[1], Head(src)[2]), Tail(src))

RECURSIVE DictUpdateKeys(_, _)
\* d.update(dict.fromkeys(ks)) on a dict d that maps keys to None:
\* modelled on the key list alone
DictUpdateKeys(d, ks) ==
    IF ks = <<>> THEN d
    ELSE DictUpdateKeys(IF \E i \in DOMAIN d : d[i] = Head(ks)
                        THEN d ELSE Append(d, Head(ks)),
                        Tail(ks))

-----------------------------------------------------------------------------
(* collections.ChainMap *)

Ok(v)   == [err |-> "none", val |-> v]
Raise(e) == [err |-> e, val |-> <<>>]

\* d[k] on a dict: the value, or KeyError
DictLookup(d, k) ==
    IF DictHas(d, k) THEN Ok(<<DictGet(d, k)>>) ELSE Raise("KeyError")

\* a constructor that copies the mappings it is given instead of referring
\* to them
ChainMapSnapshot(h, ids) ==
    IF ids = <<>>
    THEN [heap |-> Append(h, <<>>), maps |-> <<Len(h) + 1>>]
    ELSE [heap |-> h \o [i \in DOMAIN ids |-> h[ids[i]]],
          maps |-> [i \in DOMAIN ids |-> Len(h) + i]]

\* a constructor that keeps an empty list of mappings as it is
ChainMapNoDefault(h, ids) == [heap |-> h, maps |-> ids]

\* ChainMap(*ids): self.maps = list(maps) or [{}]
ChainMap(h, ids) ==
    IF ids = <<>>
    THEN [heap |-> Append(h, <<>>), maps |-> <<Len(h) + 1>>]
    ELSE [heap |-> h, maps |-> ids]

RECURSIVE Lookup(_, _, _)
\* c[k]: the first mapping of the list that holds k answers
Lookup(h, m, k) ==
    IF m = <<>> THEN Raise("KeyError")
    ELSE IF DictHas(h[Head(m)], k) THEN Ok(<<DictGet(h[Head(m)], k)>>)
         ELSE Lookup(h, Tail(m), k)

RECURSIVE LookupLast(_, _, _)
\* a lookup in which the last mapping that holds k answers
LookupLast(h, m, k) ==
    IF m = <<>> THEN Raise("KeyError")
    ELSE IF DictHas(h[m[Len(m)]], k) THEN Ok(<<DictGet(h[m[Len(m)]], k)>>)
         ELSE LookupLast(h, SubSeq(m, 1, Len(m) - 1), k)

\* c[k]
GetItem(h, m, k) == Lookup(h, m, k)

\* a write that goes to the last mapping
SetItemLast(h, m, k, v) == [h EXCEPT ![m[Len(m)]] = DictSet(@, k, v)]

\* a write that updates k in the first mapping that already holds it
SetItemWhereFound(h, m, k, v) ==
    LET holders == {i \in DOMAIN m : DictHas(h[m[i]], k)}
        at == IF holders = {} THEN 1
              ELSE CHOOSE i \in holders : \A j \in holders : i <= j
    IN  [h EXCEPT ![m[at]] = DictSet(@, k, v)]

\* c[k] = v: self.maps[0][k] = v
SetItem(h, m, k, v) == [h EXCEPT ![m[1]] = DictSet(@, k, v)]

\* a delete that removes k from the first mapping that holds it
DelItemWhereFound(h, m, k) ==
    LET holders == {i \in DOMAIN m : DictHas(h[m[i]], k)}
    IN  IF holders = {} THEN [err |-> "KeyError", heap |-> h]
        ELSE LET at == CHOOSE i \in holders : \A j \in holders : i <= j
             IN  [err |-> "none", heap |-> [h EXCEPT ![m[at]] = DictDel(@, k)]]

\* a delete that, when the first mapping lacks k, removes k from the other
\* mappings before it raises
DelItemDirty(h, m, k) ==
    IF DictHas(h[m[1]], k)
    THEN [err |-> "none", heap |-> [h EXCEPT ![m[1]] = DictDel(@, k)]]
    ELSE [err |-> "KeyError",
          heap |-> [id \in DOMAIN h |->
                       IF \E i \in DOMAIN m : m[i] = id
                       THEN DictDel(h[id], k) ELSE h[id]]]

\* del c[k]: del self.maps[0][k], KeyError when maps[0] lacks k
DelItem(h, m, k) ==
    IF DictHas(h[m[1]], k)
    THEN [err |-> "none", heap |-> [h EXCEPT ![m[1]] = DictDel(@, k)]]
    ELSE [err |-> "KeyError", heap |-> h]

RECURSIVE IterFrom(_, _, _)
\* the loop of __iter__: for mapping in reversed(self.maps): d.update(...)
IterFrom(h, m, d) ==
    IF m = <<>> THEN d
    ELSE IterFrom(h, SubSeq(m, 1, Len(m) - 1),
                  DictUpdateKeys(d, DictKeys(h[m[Len(m)]])))

\* list(c.keys()) == list(iter(c))
KeysOf(h, m) == IterFrom(h, m, <<>>)

\* list(c.values()): c[k] for each k of iter(c)
ValuesOf(h, m) ==
    LET ks == KeysOf(h, m)
    IN  [i \in DOMAIN ks |-> GetItem(h, m, ks[i]).val[1]]

RECURSIVE SumLen(_, _)
\* a length that adds up the mappings' lengths
SumLen(h, m) == IF m = <<>> THEN 0 ELSE Len(h[Head(m)]) + SumLen(h, Tail(m))

\* len(c): len(set().union(*self.maps))
LenOf(h, m) == Cardinality(UNION {DictKeySet(h[m[i]]) : i \in DOMAIN m})

\* a child that starts as a copy of its parent's first mapping
NewChildCopy(h, m) == ChainMap(Append(h, h[m[1]]), <<Len(h) + 1>> \o m)

\* c.new_child(): ChainMap({}, *self.maps)
NewChild(h, m) == ChainMap(Append(h, <<>>), <<Len(h) + 1>> \o m)

\* a parents that keeps the only mapping of a one-mapping view
ParentsKeepLast(h, m) == IF Len(m) = 1 THEN ChainMap(h, m) ELSE ChainMap(h, Tail(m))

\* c.parents: ChainMap(*self.maps[1:])
Parents(h, m) == ChainMap(h, Tail(m))

-----------------------------------------------------------------------------
(* min() and max() over a dictionary and over zip(values, keys) *)

\* the largest number of entries of prices
MaxNames == 2

\* the names of the script's dictionaries as code points
Pen == <<112, 101, 110>>
Ruler == <<114, 117, 108, 101, 114>>
FB == <<70, 66>>
ACME == <<65, 67, 77, 69>>
AAPL == <<65, 65, 80, 76>>
IBM == <<73, 66, 77>>
HPQ == <<72, 80, 81>>

\* prices = {'ACME': 45.23, 'AAPL': 612.78, 'IBM': 205.55, 'HPQ': 37.20,
\*           'FB': 10.75}
Prices == << <<ACME, 4523>>, <<AAPL, 61278>>, <<IBM, 20555>>,
             <<HPQ, 3720>>, <<FB, 1075>> >>

\* prices2 = {'pen': 10.86, 'ruler': 10.86}
Prices2 == << <<Pen, 1086>>, <<Ruler, 1086>> >>

\* the keys of prices and prices2
Names == {Prices[i][1] : i \in DOMAIN Prices}
            \cup {Prices2[i][1] : i \in DOMAIN Prices2}

\* the values of prices and prices2
PriceVals == {Prices[i][2] : i \in DOMAIN Prices}
                \cup {Prices2[i][2] : i \in DOMAIN Prices2}

\* before any reduction
NoReduction == [op |-> "none", ret |-> Ok(<<>>)]

RECURSIVE StrLess(_, _)
\* s < t on strings: the first differing code point decides, a proper
\* prefix is smaller
StrLess(s, t) ==
    IF t = <<>> THEN FALSE
    ELSE IF s = <<>> THEN TRUE
    ELSE IF Head(s) # Head(t) THEN Head(s) < Head(t)
    ELSE StrLess(Tail(s), Tail(t))

\* a comparison of pairs that looks at the name first
PairLessKeyFirst(p, q) ==
    \/ StrLess(p[2], q[2])
    \/ p[2] = q[2] /\ p[1] < q[1]

\* p < q on (value, key) tuples: the value first, then the key
PairLess(p, q) ==
    \/ p[1] < q[1]
    \/ p[1] = q[1] /\ StrLess(p[2], q[2])

\* list(d.values())
DictValues(d) == [i \in DOMAIN d |-> d[i][2]]

\* list(zip(xs, ys))
Zip(xs, ys) ==
    [i \in 1..(IF Len(xs) <= Len(ys) THEN Len(xs) ELSE Len(ys)) |->
        <<xs[i], ys[i]>>]

RECURSIVE MinPairFrom(_, _)
\* the loop of min(): an item replaces the best so far when item < best
MinPairFrom(best, rest) ==
    IF rest = <<>> THEN best
    ELSE MinPairFrom(IF PairLess(Head(rest), best) THEN Head(rest) ELSE best,
                     Tail(rest))

RECURSIVE MaxPairFrom(_, _)
\* the loop of max(): an item replaces the best so far when item > best
MaxPairFrom(best, rest) ==
    IF rest = <<>> THEN best
    ELSE MaxPairFrom(IF PairLess(best, Head(rest)) THEN Head(rest) ELSE best,
                     Tail(rest))

RECURSIVE MinStrFrom(_, _)
\* the loop of min() over strings
MinStrFrom(best, rest) ==
    IF rest = <<>> THEN best
    ELSE MinStrFrom(IF StrLess(Head(rest), best) THEN Head(rest) ELSE best,
                    Tail(rest))

RECURSIVE MaxStrFrom(_, _)
\* the loop of max() over strings
MaxStrFrom(best, rest) ==
    IF rest = <<>> THEN best
    ELSE MaxStrFrom(IF StrLess(best, Head(rest)) THEN Head(rest) ELSE best,
                    Tail(rest))

\* min(zip(d.values(), d.keys()))
MinZip(d) ==
    LET ps == Zip(DictValues(d), DictKeys(d))
    IN  IF ps = <<>> THEN Raise("ValueError")
        ELSE Ok(<<MinPairFrom(Head(ps), Tail(ps))>>)

\* max(zip(d.values(), d.keys()))
MaxZip(d) ==
    LET ps == Zip(DictValues(d), DictKeys(d))
    IN  IF ps = <<>> THEN Raise("ValueError")
        ELSE Ok(<<MaxPairFrom(Head(ps), Tail(ps))>>)

\* min(d): over the keys
MinKey(d) ==
    LET ks == DictKeys(d)
    IN  IF ks = <<>> THEN Raise("ValueError")
        ELSE Ok(<<MinStrFrom(Head(ks), Tail(ks))>>)

\* max(d): over the keys
MaxKey(d) ==
    LET ks == DictKeys(d)
    IN  IF ks = <<>> THEN Raise("ValueError")
        ELSE Ok(<<MaxStrFrom(Head(ks), Tail(ks))>>)

\* the view's state, which the reductions recipe never touches
view == <<heap, maps, args, hist, merged>>

\* prices is the script's prices, or a dictionary of at most MaxNames of
\* the script's names and prices (prices2 is one of them)
InitPrices ==
    /\ heap = <<>> /\ maps = <<>> /\ args = <<>> /\ hist = <<>>
    /\ merged = <<>>
    /\ reduced = NoReduction
    /\ \/ prices = Prices
       \/ \E n \in 0..MaxNames :
             \E d \in [1..n -> Names \X PriceVals] :
                 /\ \A i, j \in 1..n : d[i][1] = d[j][1] => i = j
                 /\ prices = d

\* min_price = min(zip(prices.values(), prices.keys()))
MinPrice ==
    /\ reduced' = [op |-> "min_zip", ret |-> MinZip(prices)]
    /\ UNCHANGED <<prices, view>>

\* max_price = max(zip(prices.values(), prices.keys()))
MaxPrice ==
    /\ reduced' = [op |-> "max_zip", ret |-> MaxZip(prices)]
    /\ UNCHANGED <<prices, view>>

\* min(prices)
MinName ==
    /\ reduced' = [op |-> "min_key", ret |-> MinKey(prices)]
    /\ UNCHANGED <<prices, view>>

\* max(prices)
MaxName ==
    /\ reduced' = [op |-> "max_key", ret |-> MaxKey(prices)]
    /\ UNCHANGED <<prices, view>>

NextPrices == MinPrice \/ MaxPrice \/ MinName \/ MaxName

SpecPrices == InitPrices /\ [][NextPrices]_vars

-----------------------------------------------------------------------------
(* The script *)

\* one entry of hist: the call, its outcome, the state before and after it
Entry(op, who, k, v, ret, h1, m1) ==
    [op |-> op, who |-> who, key |-> k, val |-> v, ret |-> ret,
     heap0 |-> heap, maps0 |-> maps, heap1 |-> h1, maps1 |-> m1]

\* a and b exist; the view is ChainMap() or ChainMap(a, b)
Init ==
    \E ids \in {<<>>, <<A, B>>} :
        LET c == ChainMap(<<DictA, DictB>>, ids)
        IN  /\ heap = c.heap
            /\ maps = c.maps
            /\ args = ids
            /\ hist = <<>>
            /\ merged = <<>>
            /\ prices = <<>>
            /\ reduced = NoReduction

\* print(c[k])
Get(k) ==
    /\ Len(hist) < MaxOps
    /\ hist' = Append(hist, Entry("get", 0, k, 0, GetItem(heap, maps, k),
                                  heap, maps))
    /\ UNCHANGED <<heap, maps, args, merged, calc>>

\* c[k] = v
Set(k, v) ==
    /\ Len(hist) < MaxOps
    /\ heap' = SetItem(heap, maps, k, v)
    /\ hist' = Append(hist, Entry("set", 0, k, v, Ok(<<>>), heap', maps))
    /\ UNCHANGED <<maps, args, merged, calc>>

\* del c[k]
Delete(k) ==
    LET r == DelItem(heap, maps, k)
    IN  /\ Len(hist) < MaxOps
        /\ heap' = r.heap
        /\ hist' = Append(hist,
                          Entry("delete", 0, k, 0,
                                IF r.err = "none" THEN Ok(<<>>) ELSE Raise(r.err),
                                heap', maps))
        /\ UNCHANGED <<maps, args, merged, calc>>

\* list(c.keys())
ListKeys ==
    /\ Len(hist) < MaxOps
    /\ hist' = Append(hist, Entry("keys", 0, "", 0, Ok(KeysOf(heap, maps)),
                                  heap, maps))
    /\ UNCHANGED <<heap, maps, args, merged, calc>>

\* list(c.values())
ListValues ==
    /\ Len(hist) < MaxOps
    /\ hist' = Append(hist, Entry("values", 0, "", 0, Ok(ValuesOf(heap, maps)),
                                  heap, maps))
    /\ UNCHANGED <<heap, maps, args, merged, calc>>

\* len(c)
Length ==
    /\ Len(hist) < MaxOps
    /\ hist' = Append(hist, Entry("len", 0, "", 0, Ok(<<LenOf(heap, maps)>>),
                                  heap, maps))
    /\ UNCHANGED <<heap, maps, args, merged, calc>>

\* values = values.new_child()
PushChild ==
    LET c == NewChild(heap, maps)
    IN  /\ Len(hist) < MaxOps
        /\ heap' = c.heap
        /\ maps' = c.maps
        /\ hist' = Append(hist, Entry("new_child", 0, "", 0, Ok(<<>>),
                                      heap', maps'))
        /\ UNCHANGED <<args, merged, calc>>

\* values = values.parents
PopChild ==
    LET c == Parents(heap, maps)
    IN  /\ Len(hist) < MaxOps
        /\ heap' = c.heap
        /\ maps' = c.maps
        /\ hist' = Append(hist, Entry("parents", 0, "", 0, Ok(<<>>),
                                      heap', maps'))
        /\ UNCHANGED <<args, merged, calc>>

\* a[k] = v or b[k] = v, made on the dictionary itself
ExternalSet(who, k, v) ==
    /\ Len(hist) < MaxOps
    /\ heap' = [heap EXCEPT ![who] = DictSet(@, k, v)]
    /\ hist' = Append(hist, Entry("ext_set", who, k, v, Ok(<<>>), heap', maps))
    /\ UNCHANGED <<maps, args, merged, calc>>

Next ==
    \/ \E k \in Keys : Get(k)
    \/ \E w \in Writes : Set(w[1], w[2])
    \/ \E k \in Keys : Delete(k)
    \/ ListKeys
    \/ ListValues
    \/ Length
    \/ PushChild
    \/ PopChild
    \/ \E who \in {A, B}, k \in ExtKeys, v \in ExtVals : ExternalSet(who, k, v)

Spec == Init /\ [][Next]_vars

-----------------------------------------------------------------------------
(* The script's alternative: merging with update() *)

\* a merge made the other way round: dict(a), then update(b)
MergedOfReversed(h) == DictUpdate(h[A], h[B])

\* merged = dict(b); merged.update(a)
MergedOf(h) == DictUpdate(h[B], h[A])

\* a and b exist and c = ChainMap(a, b); merged is not bound yet
InitMerge ==
    LET c == ChainMap(<<DictA, DictB>>, <<A, B>>)
    IN  /\ heap = c.heap
        /\ maps = c.maps
        /\ args = <<A, B>>
        /\ hist = <<>>
        /\ merged = <<>>
        /\ prices = <<>>
        /\ reduced = NoReduction

\* merged = dict(b); merged.update(a)
Merge ==
    /\ Len(hist) < MaxOps
    /\ merged' = <<MergedOf(heap)>>
    /\ hist' = Append(hist, Entry("merge", 0, "", 0, Ok(<<>>), heap, maps))
    /\ UNCHANGED <<heap, maps, args, calc>>

\* merged[k]
MergedGet(k) ==
    /\ Len(hist) < MaxOps
    /\ merged # <<>>
    /\ hist' = Append(hist, Entry("merged_get", 0, k, 0,
                                  DictLookup(merged[1], k), heap, maps))
    /\ UNCHANGED <<heap, maps, args, merged, calc>>

NextMerge ==
    \/ Merge
    \/ \E k \in Keys : MergedGet(k)
    \/ \E k \in Keys : Get(k)
    \/ \E w \in Writes : Set(w[1], w[2])
    \/ \E k \in Keys : Delete(k)
    \/ \E who \in {A, B}, k \in ExtKeys, v \in ExtVals : ExternalSet(who, k, v)

SpecMerge == InitMerge /\ [][NextMerge]_vars

-----------------------------------------------------------------------------
(* Vocabulary of the properties *)

\* the last operation performed
Last == hist[Len(hist)]

\* the last operation was op
Did(op) == hist # <<>> /\ Last.op = op

MinOf(S) == CHOOSE x \in S : \A y \in S : x <= y
MaxOf(S) == CHOOSE x \in S : \A y \in S : x >= y

\* positions of the layers of view (h, m) that hold k
Holders(h, m, k) == {i \in DOMAIN m : DictHas(h[m[i]], k)}

\* the value k has in the highest-priority layer that holds it
OwnerValue(h, m, k) == DictGet(h[m[MinOf(Holders(h, m, k))]], k)

\* the keys held by some layer
UnionKeys(h, m) == {k \in Keys : Holders(h, m, k) # {}}

\* position of k in dictionary d
PosIn(d, k) == CHOOSE i \in DOMAIN d : d[i][1] = k

\* the view is the script's ChainMap(a, b) with a and b as first written
IsExample(h, m) == m = <<A, B>> /\ h[A] = DictA /\ h[B] = DictB

\* every dictionary that existed before the last operation is as it was
OldDictsKept == \A id \in DOMAIN Last.heap0 : heap[id] = Last.heap0[id]

-----------------------------------------------------------------------------
(* C1: get(k) returns the value stored under k in the first layer, in     *)
(* priority order, that holds k, and fails with KeyError when no layer    *)
(* holds k.  Stated of every key in every reachable state and of every    *)
(* get the script performed.                                              *)
C1_GetFirstOwner ==
    /\ \A k \in Keys :
          IF Holders(heap, maps, k) = {}
          THEN GetItem(heap, maps, k).err = "KeyError"
          ELSE GetItem(heap, maps, k) = Ok(<<OwnerValue(heap, maps, k)>>)
    /\ Did("get") =>
          IF Holders(Last.heap0, Last.maps0, Last.key) = {}
          THEN Last.ret.err = "KeyError"
          ELSE Last.ret = Ok(<<OwnerValue(Last.heap0, Last.maps0, Last.key)>>)

\* a get of a key that two layers hold with different values returned the
\* first layer's value, and another get failed
C1_Witness ==
    /\ Len(hist) >= 2
    /\ Did("get")
    /\ Len(maps) = 2
    /\ Holders(heap, maps, Last.key) = {1, 2}
    /\ DictGet(heap[maps[1]], Last.key) # DictGet(heap[maps[2]], Last.key)
    /\ Last.ret = Ok(<<DictGet(heap[maps[1]], Last.key)>>)
    /\ hist[Len(hist) - 1].op = "get"
    /\ hist[Len(hist) - 1].ret.err = "KeyError"

(* C2: set(k, v) writes into the first layer only: afterwards the first   *)
(* layer maps k to v, its other entries are as before, and every lower    *)
(* layer (every other dictionary) is exactly as it was.                   *)
C2_SetFirstLayerOnly ==
    Did("set") =>
        LET e == Last
            first == heap[maps[1]]
            before == e.heap0[e.maps0[1]]
        IN  /\ maps = e.maps0
            /\ DictHas(first, e.key) /\ DictGet(first, e.key) = e.val
            /\ \A k \in Keys \ {e.key} :
                  /\ DictHas(first, k) <=> DictHas(before, k)
                  /\ DictHas(first, k) => DictGet(first, k) = DictGet(before, k)
            /\ \A id \in DOMAIN e.heap0 : id # maps[1] => heap[id] = e.heap0[id]
            /\ DOMAIN heap = DOMAIN e.heap0

\* a set created a key in the first layer that only a lower layer held
C2_Witness ==
    /\ Did("set")
    /\ Len(maps) = 2
    /\ ~DictHas(Last.heap0[maps[1]], Last.key)
    /\ DictHas(Last.heap0[maps[2]], Last.key)
    /\ DictGet(heap[maps[1]], Last.key) = Last.val
    /\ DictGet(heap[maps[2]], Last.key) # Last.val

(* C3: delete(k) removes k from the first layer only; when the first      *)
(* layer lacks k it fails with KeyError even if a lower layer holds k,    *)
(* and no lower layer ever loses an entry.                                *)
C3_DeleteFirstLayerOnly ==
    Did("delete") =>
        LET e == Last
            before == e.heap0[e.maps0[1]]
        IN  /\ maps = e.maps0
            /\ \A id \in DOMAIN e.heap0 : id # maps[1] => heap[id] = e.heap0[id]
            /\ IF DictHas(before, e.key)
               THEN /\ e.ret.err = "none"
                    /\ ~DictHas(heap[maps[1]], e.key)
                    /\ \A k \in Keys \ {e.key} :
                          /\ DictHas(heap[maps[1]], k) <=> DictHas(before, k)
                          /\ DictHas(before, k) =>
                                DictGet(heap[maps[1]], k) = DictGet(before, k)
               ELSE /\ e.ret.err = "KeyError"
                    /\ heap = e.heap0

\* a delete of a key that only a lower layer holds failed and left it there
C3_Witness ==
    /\ Did("delete")
    /\ Len(maps) = 2
    /\ ~DictHas(Last.heap0[maps[1]], Last.key)
    /\ DictHas(Last.heap0[maps[2]], Last.key)
    /\ Last.ret.err = "KeyError"
    /\ DictHas(heap[maps[2]], Last.key)

(* C4 as stated: set(k, v) followed immediately by get(k) returns v, and  *)
(* after the set the key k appears only in the first layer.               *)
C4_Original ==
    /\ Did("set") =>
          /\ GetItem(heap, maps, Last.key) = Ok(<<Last.val>>)
          /\ Holders(heap, maps, Last.key) = {1}
    /\ (Len(hist) >= 2 /\ Did("get") /\ hist[Len(hist) - 1].op = "set"
          /\ hist[Len(hist) - 1].key = Last.key) =>
          Last.ret = Ok(<<hist[Len(hist) - 1].val>>)

(* C4, amended: set(k, v) followed immediately by get(k) returns v, and   *)
(* after the set k appears in the first layer, and in a lower layer       *)
(* exactly when that layer already held k before the set.                 *)
C4_SetThenGet ==
    /\ Did("set") =>
          /\ GetItem(heap, maps, Last.key) = Ok(<<Last.val>>)
          /\ Holders(heap, maps, Last.key) =
                {1} \cup Holders(Last.heap0, Last.maps0, Last.key)
    /\ (Len(hist) >= 2 /\ Did("get") /\ hist[Len(hist) - 1].op = "set"
          /\ hist[Len(hist) - 1].key = Last.key) =>
          Last.ret = Ok(<<hist[Len(hist) - 1].val>>)

\* a set of a key that a lower layer holds with another value, then a get
\* of that key returning the value set
C4_Witness ==
    /\ Len(hist) >= 2
    /\ Did("get")
    /\ hist[Len(hist) - 1].op = "set"
    /\ hist[Len(hist) - 1].key = Last.key
    /\ Last.ret = Ok(<<hist[Len(hist) - 1].val>>)
    /\ Len(maps) = 2
    /\ Holders(heap, maps, Last.key) = {1, 2}
    /\ DictGet(heap[maps[2]], Last.key) # hist[Len(hist) - 1].val

(* C5: in every reachable state len(view) is the number of distinct keys  *)
(* across the layers (the keys a get finds), not the sum of the layers'   *)
(* sizes; keys() lists each key of the union exactly once; values() gives *)
(* for each listed key the value of its highest-priority owning layer.    *)
C5_LenKeysValues ==
    LET ks == KeysOf(heap, maps)
        vs == ValuesOf(heap, maps)
        found == {k \in Keys : GetItem(heap, maps, k).err = "none"}
    IN  /\ LenOf(heap, maps) = Cardinality(found)
        /\ LenOf(heap, maps) = Len(ks)
        /\ {ks[i] : i \in DOMAIN ks} = UnionKeys(heap, maps)
        /\ \A i, j \in DOMAIN ks : ks[i] = ks[j] => i = j
        /\ Len(vs) = Len(ks)
        /\ \A i \in DOMAIN ks : vs[i] = OwnerValue(heap, maps, ks[i])
        /\ Did("len") => Last.ret = Ok(<<Cardinality(found)>>)
        /\ Did("keys") => Last.ret = Ok(ks)
        /\ Did("values") => Last.ret = Ok(vs)

\* len returned 3 for two layers of two keys each that share one key
C5_Witness ==
    /\ Did("len")
    /\ Len(maps) = 2
    /\ Len(heap[maps[1]]) = 2 /\ Len(heap[maps[2]]) = 2
    /\ Last.ret = Ok(<<3>>)
    /\ \E k \in Keys : Holders(heap, maps, k) = {1, 2}

\* k1 comes before k2 when the layers are read first to last and each key
\* is taken where it first occurs
PriorityBefore(h, m, k1, k2) ==
    LET l1 == MinOf(Holders(h, m, k1))
        l2 == MinOf(Holders(h, m, k2))
    IN  \/ l1 < l2
        \/ l1 = l2 /\ PosIn(h[m[l1]], k1) < PosIn(h[m[l2]], k2)

(* C6 as stated: keys() and values() iterate in layer priority order and  *)
(* then insertion order within a layer, a key emitted at its first        *)
(* occurrence; for {x:1, z:3} then {y:2, z:4} the keys are x, y, z and    *)
(* the values 1, 2, 3.                                                    *)
C6_Original ==
    LET ks == KeysOf(heap, maps)
        vs == ValuesOf(heap, maps)
    IN  /\ \A i, j \in DOMAIN ks :
              i < j => PriorityBefore(heap, maps, ks[i], ks[j])
        /\ IsExample(heap, maps) =>
              ks = <<"x", "y", "z">> /\ vs = <<1, 2, 3>>

\* keys() then values() were called on the script's ChainMap(a, b) and
\* returned y, z, x and 2, 3, 1, where the script's comments at lines 36-39
\* say ['x', 'y', 'z'] and [1, 2, 3]
C6_Witness ==
    /\ Len(hist) >= 2
    /\ IsExample(heap, maps)
    /\ hist[Len(hist) - 1].op = "keys"
    /\ hist[Len(hist) - 1].ret = Ok(<<"y", "z", "x">>)
    /\ Did("values")
    /\ Last.ret = Ok(<<2, 3, 1>>)

RECURSIVE KeptAfter(_)
\* how many of the mappings given to the constructor (the last ones of
\* args) are still layers of the view after the first n operations: only a
\* parents taken when nothing but constructor layers is left drops one
KeptAfter(n) ==
    IF n = 0 THEN Len(args)
    ELSE LET p == KeptAfter(n - 1)
         IN  IF hist[n].op = "parents" /\ Len(hist[n].maps0) <= p
             THEN p - 1 ELSE p

Kept == KeptAfter(Len(hist))

\* the view's layers named through the caller's own references: the pushed
\* children, then the constructor arguments still in the view
OwnerMaps ==
    SubSeq(maps, 1, Len(maps) - Kept)
        \o SubSeq(args, Len(args) - Kept + 1, Len(args))

(* C7: the view holds references, not copies.  In every reachable state   *)
(* get, keys and len on the view read the current contents of the         *)
(* dictionaries it was constructed from, so after a[k] = v made on a      *)
(* itself, with a the first layer of the view, get(k) returns v.          *)
C7_ViewSeesExternalMutation ==
    LET om == OwnerMaps
    IN  /\ \A k \in Keys : GetItem(heap, maps, k) = GetItem(heap, om, k)
        /\ KeysOf(heap, maps) = KeysOf(heap, om)
        /\ LenOf(heap, maps) = LenOf(heap, om)
        /\ (Did("ext_set") /\ Len(om) = Len(args) /\ om = args
              /\ Last.who = args[1]) =>
              GetItem(heap, maps, Last.key) = Ok(<<Last.val>>)
        /\ (Len(hist) >= 2 /\ Did("get")
              /\ hist[Len(hist) - 1].op = "ext_set") =>
              Last.ret = GetItem(heap, om, Last.key)

\* a['x'] = 13 was made on a, whose x was 1, and the next get('x') on the
\* ChainMap(a, b) built before it returned 13
C7_Witness ==
    /\ Len(hist) >= 2
    /\ args = <<A, B>>
    /\ Kept = 2
    /\ hist[Len(hist) - 1].op = "ext_set"
    /\ hist[Len(hist) - 1].who = A
    /\ hist[Len(hist) - 1].key = "x"
    /\ hist[Len(hist) - 1].val = 13
    /\ DictGet(hist[Len(hist) - 1].heap0[A], "x") = 1
    /\ Did("get")
    /\ Last.key = "x"
    /\ Last.ret = Ok(<<13>>)

(* C8: push_child() then set(k, v) on the child then pop_child() yields a *)
(* view equal to the one before the push: the same layers with the same   *)
(* contents and the same get result for every key, also when k was bound  *)
(* in the original view.  Stated of the three operations applied to every *)
(* reachable state and of every such run of the script.                   *)
C8_PushSetPopRestores ==
    /\ \A w \in Writes :
          LET k == w[1]
              v == w[2]
              c1 == NewChild(heap, maps)
              h2 == SetItem(c1.heap, c1.maps, k, v)
              c3 == Parents(h2, c1.maps)
          IN  /\ c3.maps = maps
              /\ \A id \in DOMAIN heap : c3.heap[id] = heap[id]
              /\ GetItem(c3.heap, c3.maps, k) = GetItem(heap, maps, k)
    /\ (Len(hist) >= 3 /\ Did("parents")
          /\ hist[Len(hist) - 1].op = "set"
          /\ hist[Len(hist) - 2].op = "new_child") =>
          LET e == hist[Len(hist) - 2]
          IN  /\ maps = e.maps0
              /\ \A id \in DOMAIN e.heap0 : heap[id] = e.heap0[id]
              /\ \A q \in Keys :
                    GetItem(heap, maps, q) = GetItem(e.heap0, e.maps0, q)

\* new_child, a set in the child of a key the original view binds to
\* another value, then parents
C8_Witness ==
    /\ Len(hist) >= 3
    /\ Did("parents")
    /\ hist[Len(hist) - 1].op = "set"
    /\ hist[Len(hist) - 2].op = "new_child"
    /\ Len(maps) = 2
    /\ Holders(heap, maps, hist[Len(hist) - 1].key) # {}
    /\ GetItem(heap, maps, hist[Len(hist) - 1].key).val
          # <<hist[Len(hist) - 1].val>>
    /\ GetItem(hist[Len(hist) - 1].heap1, hist[Len(hist) - 1].maps1,
               hist[Len(hist) - 1].key) = Ok(<<hist[Len(hist) - 1].val>>)

(* C9 as stated: pop_child() returns a new view with the current first    *)
(* layer removed, and fails with EmptyChain when the view has only one    *)
(* layer.                                                                 *)
C9_Original ==
    Did("parents") =>
        IF Len(Last.maps0) = 1
        THEN Last.ret.err = "EmptyChain"
        ELSE Last.ret.err = "none" /\ maps = Tail(Last.maps0)

(* C9, amended: pop_child() returns a new view with the current first     *)
(* layer removed; when the view has only one layer it does not fail: it   *)
(* returns a view over one new, empty mapping.  No existing dictionary    *)
(* changes.                                                               *)
C9_ParentsDropsFirst ==
    Did("parents") =>
        /\ Last.ret.err = "none"
        /\ OldDictsKept
        /\ IF Len(Last.maps0) = 1
           THEN /\ Len(maps) = 1
                /\ maps[1] \notin DOMAIN Last.heap0
                /\ heap[maps[1]] = <<>>
           ELSE /\ maps = Tail(Last.maps0)
                /\ heap = Last.heap0

\* parents was taken of a view with one, non-empty layer
C9_Witness ==
    /\ Did("parents")
    /\ Len(Last.maps0) = 1
    /\ Last.heap0[Last.maps0[1]] # <<>>
    /\ \A k \in Keys : GetItem(heap, maps, k).err = "KeyError"

(* C10: push_child() returns a new view whose first layer is a new empty  *)
(* mapping and whose remaining layers are the original's, in the same     *)
(* order; the original view and all its layers are unchanged; and get(k)  *)
(* on the new view equals get(k) on the original for every key for as     *)
(* long as the new layer has not been written.                            *)
C10_NewChildFrame ==
    /\ Did("new_child") =>
          /\ Len(maps) = Len(Last.maps0) + 1
          /\ Tail(maps) = Last.maps0
          /\ maps[1] \notin DOMAIN Last.heap0
          /\ heap[maps[1]] = <<>>
          /\ OldDictsKept
    /\ \A i \in DOMAIN hist :
          (hist[i].op = "new_child" /\ heap[hist[i].maps1[1]] = <<>>) =>
              \A k \in Keys :
                  GetItem(heap, hist[i].maps1, k) = GetItem(heap, hist[i].maps0, k)

\* a child was pushed on a view that binds a key, which was then read
\* through the child
C10_Witness ==
    /\ Len(hist) >= 2
    /\ hist[Len(hist) - 1].op = "new_child"
    /\ Did("get")
    /\ Len(maps) = 3
    /\ heap[maps[1]] = <<>>
    /\ Last.ret.err = "none"
    /\ Last.ret = GetItem(heap, Tail(maps), Last.key)

\* the operations that only read the view
ReadOps == {"get", "keys", "values", "len"}

(* C11: across any sequence of get, set, delete, keys, values and len the *)
(* number of layers and their priority order never change; only          *)
(* push_child and pop_child produce a view with a different layer         *)
(* sequence, and each of them does; and the first layer is the only       *)
(* dictionary a set or a delete ever modifies, the reads modifying none.  *)
C11_LayersFixedFirstIsTarget ==
    \A i \in DOMAIN hist :
        LET e == hist[i]
        IN  /\ e.op \in ReadOps \cup {"set", "delete"} => e.maps1 = e.maps0
            /\ e.maps1 # e.maps0 <=> e.op \in {"new_child", "parents"}
            /\ e.op \in ReadOps => e.heap1 = e.heap0
            /\ e.op \in {"set", "delete"} =>
                  /\ DOMAIN e.heap1 = DOMAIN e.heap0
                  /\ \A id \in DOMAIN e.heap0 :
                        e.heap1[id] # e.heap0[id] => id = e.maps0[1]

\* on a two-layer view a set changed the first layer, then a delete changed
\* it again, then a get was served, the layer sequence staying the same
C11_Witness ==
    /\ Len(hist) = 3
    /\ hist[1].op = "set" /\ hist[2].op = "delete" /\ hist[3].op = "get"
    /\ Len(maps) = 2
    /\ maps = hist[1].maps0
    /\ hist[1].heap1[maps[1]] # hist[1].heap0[maps[1]]
    /\ hist[2].heap1[maps[1]] # hist[2].heap0[maps[1]]
    /\ hist[1].key # hist[2].key
    /\ DictHas(heap[maps[2]], hist[2].key)
    /\ heap[maps[2]] = hist[1].heap0[maps[2]]

(* C14: a call that fails leaves every layer's contents and the view's   *)
(* layer sequence exactly as they were before the call.  The calls that   *)
(* fail are a get of a key no layer holds and a delete of a key the first *)
(* layer lacks, both with KeyError; a pop_child never fails here, so its  *)
(* part of the statement has no case.                                     *)
C14_FailedCallChangesNothing ==
    \A i \in DOMAIN hist :
        LET e == hist[i]
        IN  /\ e.ret.err # "none" =>
                  /\ e.heap1 = e.heap0
                  /\ e.maps1 = e.maps0
                  /\ e.op \in {"get", "delete"}
                  /\ e.ret.err = "KeyError"
            /\ e.op = "get" =>
                  (e.ret.err = "KeyError"
                      <=> Holders(e.heap0, e.maps0, e.key) = {})
            /\ e.op = "delete" =>
                  (e.ret.err = "KeyError"
                      <=> ~DictHas(e.heap0[e.maps0[1]], e.key))

\* a delete failed on a key that only the second layer holds, and a get
\* failed on a key no layer holds, both leaving two non-empty layers
C14_Witness ==
    /\ Len(hist) = 3
    /\ hist[2].op = "delete" /\ hist[2].ret.err = "KeyError"
    /\ hist[3].op = "get" /\ hist[3].ret.err = "KeyError"
    /\ Len(maps) = 2
    /\ DictHas(heap[maps[2]], hist[2].key)
    /\ heap[maps[1]] # <<>>
    /\ heap = hist[2].heap0

(* C15: a view constructed from zero mappings still has a first layer to *)
(* write to: set(k, v) on it succeeds, writing a dictionary that is       *)
(* neither a nor b, and a following get(k) returns v; every reachable     *)
(* view has at least one layer.                                           *)
C15_AlwaysALayer ==
    /\ Len(maps) >= 1
    /\ \A i \in DOMAIN maps : maps[i] \in DOMAIN heap
    /\ (args = <<>> /\ hist # <<>> /\ hist[1].op = "set") =>
          LET e == hist[1]
          IN  /\ Len(e.maps0) = 1
              /\ e.heap0[e.maps0[1]] = <<>>
              /\ e.maps0[1] \notin {A, B}
              /\ e.ret.err = "none"
              /\ e.heap1[e.maps1[1]] = << <<e.key, e.val>> >>
              /\ GetItem(e.heap1, e.maps1, e.key) = Ok(<<e.val>>)
              /\ (Len(hist) >= 2 /\ hist[2].op = "get" /\ hist[2].key = e.key)
                    => hist[2].ret = Ok(<<e.val>>)

\* ChainMap() was built, values['x'] = 1 was set on it and then read
C15_Witness ==
    /\ args = <<>>
    /\ Len(hist) = 2
    /\ hist[1].op = "set" /\ hist[1].key = "x" /\ hist[1].val = 1
    /\ hist[2].op = "get" /\ hist[2].key = "x"
    /\ hist[2].ret = Ok(<<1>>)
    /\ Len(maps) = 1
    /\ heap[maps[1]] = << <<"x", 1>> >>

\* the merges performed so far, by their position in hist
Merges == {i \in DOMAIN hist : hist[i].op = "merge"}

(* C12: the dictionary built by copying the lower-priority mapping b and  *)
(* updating it with the higher-priority mapping a agrees with the view    *)
(* over a and b on every key at the moment it is built, but it is a       *)
(* snapshot: whatever is done to a and b afterwards, merged[k] is still   *)
(* what the view returned for k when merged was built, while the view     *)
(* returns the current value.                                             *)
C12_MergedIsSnapshot ==
    /\ merged = <<>> <=> Merges = {}
    /\ Merges # {} =>
          LET e == hist[MaxOf(Merges)]
          IN  /\ \A k \in Keys :
                    DictLookup(merged[1], k) = GetItem(e.heap1, e.maps1, k)
              /\ Did("merge") =>
                    \A k \in Keys :
                        DictLookup(merged[1], k) = GetItem(heap, maps, k)
              /\ Did("merged_get") =>
                    Last.ret = GetItem(e.heap1, e.maps1, Last.key)
    /\ Did("get") => Last.ret = GetItem(heap, maps, Last.key)

\* merged was built, then a['x'] = 13 was made, then merged['x'] returned
\* the old 1 while c['x'] is 13
C12_Witness ==
    /\ Len(hist) = 3
    /\ hist[1].op = "merge"
    /\ hist[2].op = "ext_set" /\ hist[2].who = A
    /\ hist[2].key = "x" /\ hist[2].val = 13
    /\ hist[3].op = "merged_get" /\ hist[3].key = "x"
    /\ hist[3].ret = Ok(<<1>>)
    /\ GetItem(heap, maps, "x") = Ok(<<13>>)

\* s is t or comes before t in the order of strings: at the first
\* position where they differ s has the smaller code point, or s is a
\* prefix of t
LexLeq(s, t) ==
    \E n \in 0..Len(s) :
        /\ n <= Len(t)
        /\ \A i \in 1..n : s[i] = t[i]
        /\ \/ n = Len(s)
           \/ n < Len(t) /\ s[n + 1] < t[n + 1]

(* C13: min and max over the (value, key) pairs of a dictionary compare   *)
(* the value first and the key second: they return the entry with the     *)
(* smallest or largest value, and among the entries sharing that value    *)
(* the one with the smallest (min) or largest (max) key; min and max over *)
(* the dictionary itself return the smallest or largest key whatever the  *)
(* values are.                                                            *)
C13_PairsCompareValueThenKey ==
    /\ (reduced.op # "none" /\ prices = <<>>) => reduced.ret.err = "ValueError"
    /\ (reduced.op # "none" /\ prices # <<>>) =>
          /\ reduced.ret.err = "none"
          /\ LET r == reduced.ret.val[1]
             IN  /\ reduced.op = "min_zip" =>
                       /\ \E i \in DOMAIN prices : prices[i] = <<r[2], r[1]>>
                       /\ \A i \in DOMAIN prices :
                             /\ r[1] <= prices[i][2]
                             /\ prices[i][2] = r[1] => LexLeq(r[2], prices[i][1])
                 /\ reduced.op = "max_zip" =>
                       /\ \E i \in DOMAIN prices : prices[i] = <<r[2], r[1]>>
                       /\ \A i \in DOMAIN prices :
                             /\ r[1] >= prices[i][2]
                             /\ prices[i][2] = r[1] => LexLeq(prices[i][1], r[2])
                 /\ reduced.op = "min_key" =>
                       /\ \E i \in DOMAIN prices : prices[i][1] = r
                       /\ \A i \in DOMAIN prices : LexLeq(r, prices[i][1])
                 /\ reduced.op = "max_key" =>
                       /\ \E i \in DOMAIN prices : prices[i][1] = r
                       /\ \A i \in DOMAIN prices : LexLeq(prices[i][1], r)

\* min over the pairs of two entries with the same price returned the one
\* with the smaller name, which is not the one the dictionary lists first
C13_Witness ==
    /\ prices = << <<Ruler, 1086>>, <<Pen, 1086>> >>
    /\ reduced.op = "min_zip"
    /\ reduced.ret = Ok(<< <<1086, Pen>> >>)

=============================================================================
